---- MODULE Spec2Model ----
(***************************************************************************)
(* A model of tweet-my-blog (package tweet_bot): the promotion history     *)
(* store (cache_manager.py), the daily scheduling gate                      *)
(* (daily_scheduler.py) and the promotion workflow (main.py,               *)
(* sitemap_parser.py, tweet_generator.py).                                  *)
(*                                                                         *)
(* The specifications that share the module:                               *)
(*   SpecStore  the operations of CacheManager, log_tweet statement by     *)
(*              statement, with crashes inside the transaction;            *)
(*   SpecSched  DailyScheduler over a wall clock and the schedule file;     *)
(*   SpecRun    invocations of TweetBot.run against a sitemap whose        *)
(*              fetches may fail;                                          *)
(*   SpecDraft  TweetGenerator.generate_tweet_text and _clean_tweet_text   *)
(*              over texts character by character;                         *)
(*   SpecVariants  the two stand-alone scripts, auto_tweet.py (main) and   *)
(*              generate_tweets.py (TweetGenerator.run);                   *)
(*   SpecMain   the entry point main() of main.py: arguments, gate, delay, *)
(*              configuration, stats, cleanup, workflow and exit status.   *)
(***************************************************************************)
EXTENDS Integers, Sequences, FiniteSets, TLC

VARIABLES
    now,        \* datetime.now() of the history store, in days
    posts,      \* table tweeted_posts (committed): a set of rows
    history,    \* table tweet_history (committed): rows in id order
    txn,        \* the open sqlite3 transaction of log_tweet, if any
    ret,        \* what the last CacheManager operation returned
    calls,      \* ghost: per URL, the timestamps of the completed log_tweet calls
    cleaned,    \* ghost: cleanup_old_data has been called
    clock,      \* datetime.now(timezone.utc): [day, sec], sec the second of the day
    schedule_file,  \* the content of daily_schedule.json
    sret,       \* what the last DailyScheduler operation returned
    first,      \* ghost: the first slot _get_or_create_schedule returned for a date
    save_failures,  \* ghost: the writes of the schedule file that failed so far
    sitemap,    \* the posts the sitemap holds, in document order
    config,     \* Config: [cooldown_days]
    run,        \* the invocation of main() in progress: TweetBot.run's locals
    exit_code,  \* the exit status of the last invocation
    published,  \* the texts posted to the social platform, in order
    runs,       \* ghost: the invocations started so far
    draft,      \* the call of generate_tweet_text in progress
    vclock,     \* datetime.now() of the stand-alone scripts, in days
    pages,      \* auto_tweet.py: per page of the site, last_tweeted and last_tweet_id
    tweet_log,  \* generate_tweets.py: the rows of table tweet_log
    tweeted,    \* the texts the stand-alone scripts posted, in order
    inv,        \* the invocation of a stand-alone script in progress
    proc        \* the process running main() of main.py

storeVars == <<now, posts, history, txn, ret, calls, cleaned>>

schedVars == <<clock, schedule_file, sret, first, save_failures>>

runVars == <<sitemap, config, run, exit_code, published, runs>>

draftVars == <<draft>>

variantVars == <<vclock, pages, tweet_log, tweeted, inv>>

\* the variables of the components added to the three above
mainVars == <<proc>>

otherVars == <<draftVars, variantVars, mainVars>>

vars == <<storeVars, schedVars, runVars, otherVars>>

\* what the operations of the store leave alone, and those of the scheduler
nonStoreVars == <<schedVars, runVars, otherVars>>

nonSchedVars == <<storeVars, runVars, otherVars>>

nonDraftVars == <<storeVars, schedVars, runVars, variantVars, mainVars>>

nonVariantVars == <<storeVars, schedVars, runVars, draftVars, mainVars>>

----------------------------------------------------------------------------
(* Bounds of the model *)

\* the store clock counts days, from 0 to MaxTime
MaxTime == 3

\* cooldown_days and days_to_keep range over 1..MaxDays
MaxDays == 2

\* at most MaxLogs log_tweet calls complete
MaxLogs == 2

URLs == {"/a", "/b"}

\* the title main.py passes for a post
TitleOf(url) == "Title of " \o url

Texts == {"draft"}

NULL == "NULL"

DayRange == 1..MaxDays

----------------------------------------------------------------------------
(* SQL helpers *)

\* the rows of table P for post_url = url (post_url is UNIQUE, so at most one)
RowsOf(P, url) == {r \in P : r.post_url = url}

\* a scalar subquery (SELECT col FROM tweeted_posts WHERE post_url = ?):
\* the empty set stands for SQL NULL, a singleton for the value
SelectFirstTweetedAt(P, url) == {r.first_tweeted_at : r \in RowsOf(P, url)}

SelectTweetCount(P, url) == {r.tweet_count : r \in RowsOf(P, url)}

\* NULL + 1 is NULL
PlusOne(x) == {v + 1 : v \in x}

COALESCE(x, y) == IF x = {} THEN y ELSE CHOOSE v \in x : TRUE

\* INSERT OR REPLACE: the rows that conflict on the UNIQUE column are deleted,
\* then the new row is inserted
InsertOrReplace(P, row) == (P \ RowsOf(P, row.post_url)) \cup {row}

\* mutant: the counter subquery without the + 1
UpsertRowNoIncrement(P, url, title, t) ==
    [post_url         |-> url,
     post_title       |-> title,
     first_tweeted_at |-> COALESCE(SelectFirstTweetedAt(P, url), t),
     last_tweeted_at  |-> t,
     tweet_count      |-> COALESCE(SelectTweetCount(P, url), 1)]

\* the VALUES (...) of the upsert of log_tweet
UpsertRow(P, url, title, t) ==
    [post_url         |-> url,
     post_title       |-> title,
     first_tweeted_at |-> COALESCE(SelectFirstTweetedAt(P, url), t),
     last_tweeted_at  |-> t,
     tweet_count      |-> COALESCE(PlusOne(SelectTweetCount(P, url)), 1)]

\* first statement of log_tweet
UpsertPost(P, url, title, t) == InsertOrReplace(P, UpsertRow(P, url, title, t))

\* mutant: the new event row replaces the event rows the URL already has
InsertHistoryOverwrite(H, a) ==
    Append(SelectSeq(H, LAMBDA r : r.post_url # a.post_url),
           [post_url      |-> a.post_url,
            tweet_text    |-> a.tweet_text,
            tweet_id      |-> a.tweet_id,
            tweeted_at    |-> a.now,
            style_params  |-> a.style_params,
            success       |-> a.success,
            error_message |-> a.error_message])

\* second statement of log_tweet
InsertHistory(H, a) ==
    Append(H, [post_url      |-> a.post_url,
               tweet_text    |-> a.tweet_text,
               tweet_id      |-> a.tweet_id,
               tweeted_at    |-> a.now,
               style_params  |-> a.style_params,
               success       |-> a.success,
               error_message |-> a.error_message])

\* get_recently_tweeted_urls: cutoff_date = now - timedelta(days=cooldown_days),
\* SELECT post_url FROM tweeted_posts WHERE last_tweeted_at >= cutoff_date
RecentlyTweeted(P, t, cooldown_days) ==
    LET cutoff_date == t - cooldown_days
    IN  {r.post_url : r \in {q \in P : q.last_tweeted_at >= cutoff_date}}

\* the rows of H that satisfy keep(row), in order
RECURSIVE SelectSeq2(_, _)
SelectSeq2(H, drop) ==
    IF H = <<>> THEN <<>>
    ELSE IF Head(H) \in drop THEN SelectSeq2(Tail(H), drop)
         ELSE <<Head(H)>> \o SelectSeq2(Tail(H), drop)

Range(s) == {s[i] : i \in DOMAIN s}

----------------------------------------------------------------------------
(* The arguments a caller passes to log_tweet (main.py:133-141) *)

LogArgs ==
    {[post_url |-> u, post_title |-> TitleOf(u), tweet_text |-> tx,
      tweet_id |-> IF ok THEN "tid" ELSE NULL,
      style_params |-> "style", success |-> ok,
      error_message |-> IF ok THEN NULL ELSE "Failed to post tweet", now |-> 0] :
        u \in URLs, tx \in Texts, ok \in BOOLEAN}

NoTxn == [pc |-> "none"]

NoRet == [op |-> "none"]

\* the log_tweet calls completed so far
RECURSIVE SumLen(_, _)
SumLen(f, S) ==
    IF S = {} THEN 0
    ELSE LET u == CHOOSE x \in S : TRUE IN Len(f[u]) + SumLen(f, S \ {u})

CompletedLogs == SumLen(calls, URLs)

----------------------------------------------------------------------------
(* The scheduling gate: daily_scheduler.py *)

\* the calendar days of the model are 0..MaxDay
MaxDay == 1

\* at most MaxSaveFailures writes of the schedule file fail
MaxSaveFailures == 1

\* "within 10 minutes of the scheduled time"
ToleranceMinutes == 10

\* mutant: the second slot 18 minutes after the first
TimeSlotsClose ==
    {<<13, 12>>, <<13, 30>>, <<15, 8>>, <<16, 37>>, <<17, 19>>, <<18, 26>>,
     <<19, 43>>, <<20, 17>>, <<21, 33>>, <<22, 11>>, <<23, 29>>}

\* time_slots of _create_todays_schedule, (hour, minute) in UTC
TimeSlots ==
    {<<13, 12>>, <<14, 23>>, <<15, 8>>, <<16, 37>>, <<17, 19>>, <<18, 26>>,
     <<19, 43>>, <<20, 17>>, <<21, 33>>, <<22, 11>>, <<23, 29>>}

\* the second of the day of hour:minute:00
SecondOf(hour, minute) == hour * 3600 + minute * 60

LastSecond == SecondOf(23, 59) + 59

\* the slots whose tolerance window the clock visits end by end: the
\* earliest and the latest of the day
BoundarySlots == {<<13, 12>>, <<23, 29>>}

\* the seconds of the day at which the model looks at the clock: midnight, the
\* last second of the day, every slot time and, around the boundary slots, the
\* two ends of the tolerance window and the seconds just outside it
Instants ==
    {0, LastSecond} \cup
    {SecondOf(s[1], s[2]) : s \in TimeSlots} \cup
    UNION {{SecondOf(s[1], s[2]) + d :
               d \in {0 - (ToleranceMinutes * 60 + 1), 0 - ToleranceMinutes * 60,
                      ToleranceMinutes * 60, ToleranceMinutes * 60 + 1}} :
           s \in BoundarySlots}

Abs(x) == IF x < 0 THEN 0 - x ELSE x

NoFile == [kind |-> "absent"]

CorruptFile == [kind |-> "corrupt"]

\* the dict _create_todays_schedule builds and _save_schedule dumps
\* (created_at is written and never read)
Record(today, slot) ==
    [kind |-> "record", date |-> today, hour |-> slot[1], minute |-> slot[2]]

\* _save_schedule: the file is rewritten ("ok"); open() raises and the file is
\* left as it was ("fail"); or the write stops after open(..., 'w') truncated
\* the file ("partial"). Every exception is caught and only printed.
SaveSchedule(file, schedule, save) ==
    CASE save = "ok"      -> schedule
      [] save = "fail"    -> file
      [] save = "partial" -> CorruptFile

\* mutant: the record of the file is ignored, every call draws a new slot
GetOrCreateScheduleReroll(file, today, pick, save) ==
    [schedule |-> Record(today, pick),
     file     |-> SaveSchedule(file, Record(today, pick), save)]

\* _get_or_create_schedule(today): the record of the file when the file
\* exists, parses and is dated today; otherwise a new record with a slot from
\* random.choice(time_slots), saved. Result: the dict returned and the file.
GetOrCreateSchedule(file, today, pick, save) ==
    IF file.kind = "record" /\ file.date = today
    THEN [schedule |-> file, file |-> file]
    ELSE [schedule |-> Record(today, pick),
          file     |-> SaveSchedule(file, Record(today, pick), save)]

\* mutant: the tolerance compared with < instead of <=
WithinToleranceStrict(sec, hour, minute) ==
    Abs(sec - SecondOf(hour, minute)) < ToleranceMinutes * 60

\* should_run_today, lines 36-49: scheduled_time is today at hour:minute:00,
\* time_diff_seconds / 60 <= 10
WithinTolerance(sec, hour, minute) ==
    LET time_diff_seconds == Abs(sec - SecondOf(hour, minute))
    IN  time_diff_seconds <= ToleranceMinutes * 60

\* the values today (line 22) can have when current_time (line 23) is the
\* clock: the day of the clock, or the day before when midnight fell between
\* the two reads; never a day before one already used
Todays ==
    {d \in {clock.day} \cup (IF clock.sec = 0 THEN {clock.day - 1} ELSE {}) :
        /\ d >= 0
        /\ first.kind = "slot" => d >= first.date}

NoFirst == [kind |-> "none"]

NoSRet == [op |-> "none"]

\* ghost: remember the first slot returned for a date (forgotten by SchedTick
\* once no call can name that date any more)
FirstAfter(today, schedule) ==
    IF first.kind = "slot" /\ first.date = today
    THEN first
    ELSE [kind |-> "slot", date |-> today,
          hour |-> schedule.hour, minute |-> schedule.minute]

SchedInit ==
    /\ clock = [day |-> 0, sec |-> 0]
    /\ schedule_file = NoFile
    /\ sret = NoSRet
    /\ first = NoFirst
    /\ save_failures = 0

\* the instant after sec
NextInstant(sec) ==
    CHOOSE t \in Instants :
        t > sec /\ \A x \in Instants : x > sec => t <= x

\* time passes: the next instant of the day, or midnight of the next day
SchedTick ==
    /\ IF clock.sec < LastSecond
       THEN clock' = [clock EXCEPT !.sec = NextInstant(clock.sec)]
       ELSE clock.day < MaxDay /\ clock' = [day |-> clock.day + 1, sec |-> 0]
    /\ sret' = NoSRet
    /\ first' = IF first.kind = "slot" /\ first.date < clock.day
                THEN NoFirst ELSE first
    /\ UNCHANGED <<schedule_file, save_failures>>
    /\ UNCHANGED nonSchedVars

\* what random.choice and the write of the file can do in a call that finds
\* no record of today; a call that finds one draws nothing and writes nothing
Outcomes(today) ==
    IF schedule_file.kind = "record" /\ schedule_file.date = today
    THEN {<<CHOOSE s \in TimeSlots : TRUE, "ok">>}
    ELSE TimeSlots \X ({"ok"} \cup (IF save_failures < MaxSaveFailures
                                     THEN {"fail", "partial"} ELSE {}))

\* should_run_today()
ShouldRunToday ==
    \E today \in Todays :
      \E o \in Outcomes(today) :
        LET got == GetOrCreateSchedule(schedule_file, today, o[1], o[2])
        IN  /\ schedule_file' = got.file
            /\ sret' = [op |-> "should_run_today", today |-> today,
                        schedule |-> got.schedule,
                        result |-> WithinTolerance(clock.sec, got.schedule.hour,
                                                   got.schedule.minute)]
            /\ first' = FirstAfter(today, got.schedule)
            /\ save_failures' = save_failures + (IF o[2] = "ok" THEN 0 ELSE 1)
            /\ UNCHANGED clock
            /\ UNCHANGED nonSchedVars

\* get_todays_schedule()
GetTodaysSchedule ==
    \E o \in Outcomes(clock.day) :
        LET today == clock.day
            got == GetOrCreateSchedule(schedule_file, today, o[1], o[2])
        IN  /\ schedule_file' = got.file
            /\ sret' = [op |-> "get_todays_schedule", today |-> today,
                        schedule |-> got.schedule]
            /\ first' = FirstAfter(today, got.schedule)
            /\ save_failures' = save_failures + (IF o[2] = "ok" THEN 0 ELSE 1)
            /\ UNCHANGED clock
            /\ UNCHANGED nonSchedVars

SchedNext ==
    \/ SchedTick
    \/ ShouldRunToday
    \/ GetTodaysSchedule

----------------------------------------------------------------------------
(* The gate under an external trigger that starts a gated invocation within *)
(* the tolerance after every slot time, with a schedule file that persists  *)

\* an invocation triggered at slot s and delayed by at most the tolerance
TriggeredAt(sec, s) ==
    /\ sec >= SecondOf(s[1], s[2])
    /\ sec <= SecondOf(s[1], s[2]) + ToleranceMinutes * 60

\* sec is an instant of the trigger window of some slot
InTriggerWindow(sec) == \E s \in TimeSlots : TriggeredAt(sec, s)

\* sec and the instant after it lie in the trigger window of the same slot
WindowGoesOn(sec) ==
    /\ sec < LastSecond
    /\ \E s \in TimeSlots : TriggeredAt(sec, s) /\ TriggeredAt(NextInstant(sec), s)

\* time passes; the trigger window of a slot is not left before an invocation
\* was made in it
GateTick ==
    /\ (InTriggerWindow(clock.sec) /\ ~WindowGoesOn(clock.sec)) =>
           sret.op = "should_run_today"
    /\ IF clock.sec < LastSecond
       THEN clock' = [clock EXCEPT !.sec = NextInstant(clock.sec)]
       ELSE clock.day < MaxDay /\ clock' = [day |-> clock.day + 1, sec |-> 0]
    /\ sret' = IF WindowGoesOn(clock.sec) THEN sret ELSE NoSRet
    /\ first' = IF first.kind = "slot" /\ first.date < clock.day
                THEN NoFirst ELSE first
    /\ UNCHANGED <<schedule_file, save_failures>>
    /\ UNCHANGED nonSchedVars

\* a gated invocation of main (main.py:179-190): should_run_today(), and when
\* it says no, get_todays_schedule() for the message; the file is written
GateInvoke ==
    /\ InTriggerWindow(clock.sec)
    /\ \E pick \in TimeSlots :
         LET today == clock.day
             got == GetOrCreateSchedule(schedule_file, today, pick, "ok")
             result == WithinTolerance(clock.sec, got.schedule.hour,
                                       got.schedule.minute)
             shown == GetOrCreateSchedule(got.file, today, pick, "ok")
         IN  /\ schedule_file' = IF result THEN got.file ELSE shown.file
             /\ sret' = [op |-> "should_run_today", today |-> today,
                         schedule |-> got.schedule, result |-> result]
             /\ first' = FirstAfter(today, got.schedule)
    /\ UNCHANGED <<clock, save_failures>>
    /\ UNCHANGED nonSchedVars

GateNext ==
    \/ GateTick
    \/ GateInvoke


----------------------------------------------------------------------------
(* SpecStore: the operations of CacheManager *)

StoreInit ==
    /\ now = 0
    /\ posts = {}
    /\ history = <<>>
    /\ txn = NoTxn
    /\ ret = NoRet
    /\ calls = [u \in URLs |-> <<>>]
    /\ cleaned = FALSE

\* time passes
StoreTick ==
    /\ now < MaxTime
    /\ now' = now + 1
    /\ ret' = NoRet
    /\ UNCHANGED <<posts, history, txn, calls, cleaned>>
    /\ UNCHANGED nonStoreVars

\* get_recently_tweeted_urls(cooldown_days)
GetRecentlyTweetedUrls(cooldown_days) ==
    /\ txn.pc = "none"
    /\ ret' = [op |-> "get_recently_tweeted_urls", cooldown_days |-> cooldown_days,
               urls |-> RecentlyTweeted(posts, now, cooldown_days)]
    /\ UNCHANGED <<now, posts, history, txn, calls, cleaned>>
    /\ UNCHANGED nonStoreVars

\* the limits a caller passes to get_previous_tweets
Limits == 0..MaxLogs

Min(a, b) == IF a <= b THEN a ELSE b

\* WHERE post_url = ? AND success = TRUE
SuccessfulOf(H, url) == {i \in DOMAIN H : H[i].post_url = url /\ H[i].success}

\* mutant: the WHERE clause without success = TRUE
AnyTweetsOf(H, url) == {i \in DOMAIN H : H[i].post_url = url}

\* ORDER BY tweeted_at DESC LIMIT ?: the orders in which the rows at the
\* indexes M can be fetched (rows with equal tweeted_at come in any order)
OrderByTweetedAtDescLimit(H, M, limit) ==
    {q \in [1..Min(limit, Cardinality(M)) -> M] :
        /\ \A a, b \in DOMAIN q : a < b =>
              q[a] # q[b] /\ H[q[a]].tweeted_at >= H[q[b]].tweeted_at
        /\ \A i \in M \ {q[a] : a \in DOMAIN q} :
              \A a \in DOMAIN q : H[q[a]].tweeted_at >= H[i].tweeted_at}

\* SELECT tweet_text, style_params, tweeted_at: the dict built from a row
TweetDict(row) ==
    [tweet_text |-> row.tweet_text, style_params |-> row.style_params,
     tweeted_at |-> row.tweeted_at]

\* mutant: every event of the URL is a candidate, failed ones included
GetPreviousTweetsAny(post_url, limit) ==
    /\ txn.pc = "none"
    /\ \E q \in OrderByTweetedAtDescLimit(history, AnyTweetsOf(history, post_url),
                                          limit) :
          ret' = [op |-> "get_previous_tweets", post_url |-> post_url,
                  limit |-> limit,
                  tweets |-> [j \in DOMAIN q |-> TweetDict(history[q[j]])]]
    /\ UNCHANGED <<now, posts, history, txn, calls, cleaned>>
    /\ UNCHANGED nonStoreVars

\* get_previous_tweets(post_url, limit)
GetPreviousTweets(post_url, limit) ==
    /\ txn.pc = "none"
    /\ \E q \in OrderByTweetedAtDescLimit(history, SuccessfulOf(history, post_url),
                                          limit) :
          ret' = [op |-> "get_previous_tweets", post_url |-> post_url,
                  limit |-> limit,
                  tweets |-> [j \in DOMAIN q |-> TweetDict(history[q[j]])]]
    /\ UNCHANGED <<now, posts, history, txn, calls, cleaned>>
    /\ UNCHANGED nonStoreVars

\* timedelta(days=7) of get_stats
SevenDays == 7

\* get_stats(): COUNT(*) of tweeted_posts, COUNT(*) of tweet_history WHERE
\* success = TRUE, and COUNT(*) of tweet_history WHERE tweeted_at >= week_ago
\* AND success = TRUE
GetStats ==
    LET week_ago == now - SevenDays
    IN  /\ txn.pc = "none"
        /\ ret' = [op |-> "get_stats",
                   total_posts_tweeted |-> Cardinality(posts),
                   total_tweets_sent |->
                       Cardinality({i \in DOMAIN history : history[i].success}),
                   tweets_last_7_days |->
                       Cardinality({i \in DOMAIN history :
                                       /\ history[i].tweeted_at >= week_ago
                                       /\ history[i].success})]
        /\ UNCHANGED <<now, posts, history, txn, calls, cleaned>>
        /\ UNCHANGED nonStoreVars

\* mutant: the first statement is committed on its own (autocommit)
LogTweetUpsertAutocommit(a) ==
    /\ txn.pc = "none"
    /\ posts' = UpsertPost(posts, a.post_url, a.post_title, now)
    /\ txn' = [pc |-> "upserted", args |-> [a EXCEPT !.now = now],
               posts |-> UpsertPost(posts, a.post_url, a.post_title, now),
               history |-> history]
    /\ ret' = NoRet
    /\ UNCHANGED <<now, history, calls, cleaned>>
    /\ UNCHANGED nonStoreVars

\* log_tweet, up to and including its first statement: now = datetime.now(),
\* the connection is opened, the INSERT OR REPLACE opens the implicit
\* transaction and runs inside it
LogTweetUpsert(a) ==
    /\ txn.pc = "none"
    /\ txn' = [pc |-> "upserted", args |-> [a EXCEPT !.now = now],
               posts |-> UpsertPost(posts, a.post_url, a.post_title, now),
               history |-> history]
    /\ ret' = NoRet
    /\ UNCHANGED <<now, posts, history, calls, cleaned>>
    /\ UNCHANGED nonStoreVars

\* log_tweet, second statement: INSERT INTO tweet_history, same transaction
LogTweetInsert ==
    /\ txn.pc = "upserted"
    /\ txn' = [txn EXCEPT !.pc = "inserted",
                          !.history = InsertHistory(txn.history, txn.args)]
    /\ ret' = NoRet
    /\ UNCHANGED <<now, posts, history, calls, cleaned>>
    /\ UNCHANGED nonStoreVars

\* log_tweet, conn.commit(): both writes become durable together
LogTweetCommit ==
    /\ txn.pc = "inserted"
    /\ posts' = txn.posts
    /\ history' = txn.history
    /\ calls' = [calls EXCEPT ![txn.args.post_url] = Append(@, txn.args.now)]
    /\ txn' = NoTxn
    /\ ret' = [op |-> "log_tweet", args |-> txn.args]
    /\ UNCHANGED <<now, cleaned>>
    /\ UNCHANGED nonStoreVars

\* the process dies, or a statement raises, before the commit: the with block
\* (or the journal at the next open) rolls the transaction back
LogTweetCrash ==
    /\ txn.pc # "none"
    /\ txn' = NoTxn
    /\ ret' = [op |-> "log_tweet_failed", at |-> txn.pc, args |-> txn.args]
    /\ UNCHANGED <<now, posts, history, calls, cleaned>>
    /\ UNCHANGED nonStoreVars

\* mutant: the DELETE compares with <= and removes the rows exactly
\* days_to_keep old as well
CleanupOldDataInclusive(days_to_keep) ==
    LET cutoff_date == now - days_to_keep
        old == {h \in Range(history) : h.tweeted_at <= cutoff_date}
    IN  /\ txn.pc = "none"
        /\ history' = SelectSeq2(history, old)
        /\ cleaned' = TRUE
        /\ ret' = [op |-> "cleanup_old_data", days_to_keep |-> days_to_keep,
                   deleted |-> Len(history) - Len(SelectSeq2(history, old))]
        /\ UNCHANGED <<now, posts, txn, calls>>
        /\ UNCHANGED nonStoreVars

\* cleanup_old_data(days_to_keep)
CleanupOldData(days_to_keep) ==
    LET cutoff_date == now - days_to_keep
        old == {h \in Range(history) : h.tweeted_at < cutoff_date}
    IN  /\ txn.pc = "none"
        /\ history' = SelectSeq2(history, old)
        /\ cleaned' = TRUE
        /\ ret' = [op |-> "cleanup_old_data", days_to_keep |-> days_to_keep,
                   deleted |-> Len(history) - Len(SelectSeq2(history, old))]
        /\ UNCHANGED <<now, posts, txn, calls>>
        /\ UNCHANGED nonStoreVars

StoreNext ==
    \/ StoreTick
    \/ \E c \in DayRange : GetRecentlyTweetedUrls(c)
    \/ \E a \in LogArgs : CompletedLogs < MaxLogs /\ LogTweetUpsert(a)
    \/ LogTweetInsert
    \/ LogTweetCommit
    \/ LogTweetCrash
    \/ \E d \in DayRange : CleanupOldData(d)
    \/ \E u \in URLs, l \in Limits : GetPreviousTweets(u, l)
    \/ GetStats

----------------------------------------------------------------------------
(* The promotion workflow: main.py, sitemap_parser.py, tweet_generator.py *)

\* at most MaxRuns invocations are started
MaxRuns == 2

\* the lists of posts the sitemap can parse to: no post, one, or two
Sitemaps ==
    {<<>>, <<[url |-> "/a"]>>, <<[url |-> "/a"], [url |-> "/b"]>>}

\* fetch_posts: the parsed posts, or [] when the request or the parse fails
FetchPosts(ok) == IF ok THEN sitemap ELSE <<>>

\* [post for post in all_posts if post['url'] not in excluded_urls]
RECURSIVE Eligible(_, _)
Eligible(all_posts, excluded_urls) ==
    IF all_posts = <<>> THEN <<>>
    ELSE IF Head(all_posts).url \in excluded_urls
         THEN Eligible(Tail(all_posts), excluded_urls)
         ELSE <<Head(all_posts)>> \o Eligible(Tail(all_posts), excluded_urls)

\* generate_tweet_text: the cleaned text of the API, or the template when the
\* API call raises
\* mutant: no template, an API error leaves no text
GenerateTweetTextNoTemplate(api_ok) == IF api_ok THEN "generated text" ELSE ""

\* generate_tweet_text: the cleaned text of the API, or the template when the
\* API raises (tweet_generator.py:113-140); never empty
GenerateTweetText(api_ok) == IF api_ok THEN "generated text" ELSE "template text"

Idle ==
    [pc |-> "idle", test_mode |-> FALSE, recently_tweeted |-> {},
     eligible_posts |-> <<>>, selected_post |-> [url |-> NULL],
     tweet_text |-> NULL, tweet_id |-> NULL, result |-> FALSE,
     report |-> NULL, fetches |-> <<>>, post_calls |-> 0,
     posts0 |-> {}, history0 |-> <<>>, published0 |-> <<>>]

\* the state a specification of another component keeps the workflow in
RunInitIdle ==
    /\ sitemap = <<>>
    /\ config = [cooldown_days |-> 1]
    /\ run = Idle
    /\ exit_code = 0
    /\ published = <<>>
    /\ runs = 0

RunInit ==
    /\ sitemap \in Sitemaps
    /\ config \in [cooldown_days : DayRange]
    /\ run = Idle
    /\ exit_code = 0
    /\ published = <<>>
    /\ runs = 0

\* time passes between two invocations (the clock counts days, an invocation
\* takes minutes)
RunTick ==
    /\ run.pc = "idle"
    /\ now < MaxTime
    /\ now' = now + 1
    /\ UNCHANGED <<posts, history, txn, ret, calls, cleaned>>
    /\ UNCHANGED <<schedVars, runVars, otherVars>>

\* main() past the gate: TweetBot(test_mode) and run() down to
\* get_recently_tweeted_urls (main.py:197, 213, 54-62)
RunStart(test_mode) ==
    /\ run.pc = "idle"
    /\ runs < MaxRuns
    /\ runs' = runs + 1
    /\ run' = [Idle EXCEPT !.pc = "eligible", !.test_mode = test_mode,
                           !.recently_tweeted =
                               RecentlyTweeted(posts, now, config.cooldown_days),
                           !.posts0 = posts, !.history0 = history,
                           !.published0 = published]
    /\ UNCHANGED <<sitemap, config, exit_code, published>>
    /\ UNCHANGED <<storeVars, schedVars, otherVars>>

\* eligible_posts = get_eligible_posts(recently_tweeted) (main.py:65)
RunGetEligible(ok) ==
    /\ run.pc = "eligible"
    /\ run' = [run EXCEPT !.pc = "check",
                          !.fetches = Append(@, FetchPosts(ok)),
                          !.eligible_posts =
                              Eligible(FetchPosts(ok), run.recently_tweeted)]
    /\ UNCHANGED <<sitemap, config, exit_code, published, runs>>
    /\ UNCHANGED <<storeVars, schedVars, otherVars>>

\* if not eligible_posts: ... (main.py:67-81); ok is the outcome of the
\* fetch of the fallback
RunCheckEligible(ok) ==
    /\ run.pc = "check"
    /\ run' =
         IF run.eligible_posts # <<>>
         THEN [run EXCEPT !.pc = "select"]
         ELSE IF run.recently_tweeted # {}
              THEN IF FetchPosts(ok) # <<>>
                   THEN [run EXCEPT !.pc = "select",
                                    !.fetches = Append(@, FetchPosts(ok)),
                                    !.eligible_posts = FetchPosts(ok)]
                   ELSE [run EXCEPT !.pc = "done", !.result = FALSE,
                                    !.fetches = Append(@, FetchPosts(ok)),
                                    !.report = "No posts found in sitemap"]
              ELSE [run EXCEPT !.pc = "done", !.result = FALSE,
                               !.report = "No eligible posts found"]
    /\ UNCHANGED <<sitemap, config, exit_code, published, runs>>
    /\ UNCHANGED <<storeVars, schedVars, otherVars>>

\* selected_post = random.choice(eligible_posts) (main.py:84)
RunSelect ==
    /\ run.pc = "select"
    /\ \E i \in DOMAIN run.eligible_posts :
          run' = [run EXCEPT !.pc = "draft",
                             !.selected_post = run.eligible_posts[i]]
    /\ UNCHANGED <<sitemap, config, exit_code, published, runs>>
    /\ UNCHANGED <<storeVars, schedVars, otherVars>>

\* scrape, previous tweets, style, generate_tweet_text (main.py:88-122)
RunDraft(api_ok) ==
    /\ run.pc = "draft"
    /\ run' =
         IF GenerateTweetText(api_ok) = ""
         THEN [run EXCEPT !.pc = "done", !.result = FALSE,
                          !.report = "Failed to generate tweet text"]
         ELSE [run EXCEPT !.pc = "post",
                          !.tweet_text = GenerateTweetText(api_ok)]
    /\ UNCHANGED <<sitemap, config, exit_code, published, runs>>
    /\ UNCHANGED <<storeVars, schedVars, otherVars>>

\* an exception between the selection and the text (get_previous_tweets on a
\* locked or damaged database, for one) reaches the handler of run, which
\* returns False (main.py:100-103, 155-157)
RunDraftRaise ==
    /\ run.pc = "draft"
    /\ run' = [run EXCEPT !.pc = "done", !.result = FALSE,
                          !.report = "Error in tweet generation workflow"]
    /\ UNCHANGED <<sitemap, config, exit_code, published, runs>>
    /\ UNCHANGED <<storeVars, schedVars, otherVars>>

\* tweet_id = post_tweet(tweet_text, image) (main.py:125-128,
\* tweet_generator.py:269-300): the test id in test mode, the id of the tweet
\* created, or None when anything raises
RunPost(posted) ==
    /\ run.pc = "post"
    /\ IF run.test_mode
       THEN /\ run' = [run EXCEPT !.pc = "log", !.tweet_id = "test_tweet_id",
                                  !.post_calls = @ + 1]
            /\ UNCHANGED published
       ELSE IF posted
            THEN /\ run' = [run EXCEPT !.pc = "log", !.tweet_id = "tid",
                                       !.post_calls = @ + 1]
                 /\ published' = Append(published, run.tweet_text)
            ELSE /\ run' = [run EXCEPT !.pc = "log", !.tweet_id = NULL,
                                       !.post_calls = @ + 1]
                 /\ UNCHANGED published
    /\ UNCHANGED <<sitemap, config, exit_code, runs>>
    /\ UNCHANGED <<storeVars, schedVars, otherVars>>

\* the arguments of the log_tweet call of run (main.py:130-141)
RunLogArgs ==
    LET success == run.tweet_id # NULL
    IN  [post_url      |-> run.selected_post.url,
         post_title    |-> TitleOf(run.selected_post.url),
         tweet_text    |-> run.tweet_text,
         tweet_id      |-> run.tweet_id,
         style_params  |-> "style",
         success       |-> success,
         error_message |-> IF success THEN NULL ELSE "Failed to post tweet",
         now           |-> now]

\* mutant: the attempt is logged only when the tweet was posted
RunLogOnlyOnSuccess ==
    /\ run.pc = "log"
    /\ IF RunLogArgs.success
       THEN /\ posts' = UpsertPost(posts, RunLogArgs.post_url,
                                   RunLogArgs.post_title, now)
            /\ history' = InsertHistory(history, RunLogArgs)
            /\ calls' = [calls EXCEPT ![RunLogArgs.post_url] = Append(@, now)]
       ELSE UNCHANGED <<posts, history, calls>>
    /\ run' = [run EXCEPT !.pc = "done", !.result = RunLogArgs.success,
                          !.report = IF RunLogArgs.success THEN NULL
                                     ELSE "Failed to post tweet"]
    /\ UNCHANGED <<now, txn, ret, cleaned>>
    /\ UNCHANGED <<sitemap, config, exit_code, published, runs>>
    /\ UNCHANGED <<schedVars, otherVars>>

\* success = tweet_id is not None; log_tweet(...), committed; return success
\* (main.py:130-153)
RunLog ==
    /\ run.pc = "log"
    /\ posts' = UpsertPost(posts, RunLogArgs.post_url, RunLogArgs.post_title, now)
    /\ history' = InsertHistory(history, RunLogArgs)
    /\ calls' = [calls EXCEPT ![RunLogArgs.post_url] = Append(@, now)]
    /\ run' = [run EXCEPT !.pc = "done", !.result = RunLogArgs.success,
                          !.report = IF RunLogArgs.success THEN NULL
                                     ELSE "Failed to post tweet"]
    /\ UNCHANGED <<now, txn, ret, cleaned>>
    /\ UNCHANGED <<sitemap, config, exit_code, published, runs>>
    /\ UNCHANGED <<schedVars, otherVars>>

\* mutant: the status does not depend on the result of run()
ExitStatusAlwaysZero(success) == 0

\* 0 if success else 1 (main.py:214)
ExitStatus(success) == IF success THEN 0 ELSE 1

\* sys.exit(0 if success else 1) (main.py:213-214): the process ends
MainExit ==
    /\ run.pc = "done"
    /\ run' = Idle
    /\ exit_code' = ExitStatus(run.result)
    /\ UNCHANGED <<sitemap, config, published, runs>>
    /\ UNCHANGED <<storeVars, schedVars, otherVars>>

RunNext ==
    \/ RunTick
    \/ \E test_mode \in BOOLEAN : RunStart(test_mode)
    \/ \E ok \in BOOLEAN : RunGetEligible(ok)
    \/ \E ok \in BOOLEAN : RunCheckEligible(ok)
    \/ RunSelect
    \/ \E api_ok \in BOOLEAN : RunDraft(api_ok)
    \/ RunDraftRaise
    \/ \E posted \in BOOLEAN : RunPost(posted)
    \/ RunLog
    \/ MainExit

----------------------------------------------------------------------------
(* Drafting: generate_tweet_text and _clean_tweet_text of tweet_generator.py. *)
(* A text is a sequence of one-character strings.                             *)

\* the platform limit _clean_tweet_text works with
TweetLimit == 280

Max(a, b) == IF a >= b THEN a ELSE b

\* n times the character c
Rep(c, n) == [i \in 1..n |-> c]

\* k words of w letters, one space between two words
Words(k, w) == [i \in 1..(k * (w + 1) - 1) |-> IF i % (w + 1) = 0 THEN " " ELSE "w"]

\* post_data['url']: URLs of 25 and of 60 characters
PostUrls == {Rep("u", 25), Rep("u", 60)}

\* post_data['title']: a title of 10 characters and one of 260
PostTitles == {Rep("t", 10), Rep("t", 260)}

\* the texts the model may write: 49, 219, 254, 255 and 300 characters in
\* words, and 300 characters without a space
BaseTexts ==
    {Words(10, 4), Words(44, 4), Words(51, 4), Words(64, 3), Words(43, 6),
     Words(1, 300)}

\* response.choices[0].message.content: a text as it is, wrapped in quotes,
\* between blanks, or with the URL of the post at its end
Contents(post_url) ==
    UNION {{b, <<"\"">> \o b \o <<"\"">>, <<" ">> \o b \o <<" ">>,
            b \o <<" ">> \o post_url} : b \in BaseTexts}

\* str.strip(chars)
RECURSIVE Strip(_, _)
Strip(s, chars) ==
    IF s = <<>> THEN s
    ELSE IF Head(s) \in chars THEN Strip(Tail(s), chars)
    ELSE IF s[Len(s)] \in chars THEN Strip(SubSeq(s, 1, Len(s) - 1), chars)
    ELSE s

\* sub in s
Contains(s, sub) ==
    \E i \in 0..(Len(s) - Len(sub)) : SubSeq(s, i + 1, i + Len(sub)) = sub

\* s[:n]
Slice(s, n) ==
    IF n >= 0 THEN SubSeq(s, 1, Min(n, Len(s)))
    ELSE SubSeq(s, 1, Max(Len(s) + n, 0))

\* s.rsplit(' ', 1)[0]
RSplitHead(s) ==
    LET P == {i \in DOMAIN s : s[i] = " "}
    IN  IF P = {} THEN s
        ELSE SubSeq(s, 1, (CHOOSE p \in P : \A q \in P : q <= p) - 1)

\* tweet_text[:max_text_length].rsplit(' ', 1)[0] + f" {post_url}"
Truncated(tweet_text, post_url) ==
    LET max_text_length == TweetLimit - Len(post_url) - 1
    IN  RSplitHead(Slice(tweet_text, max_text_length)) \o <<" ">> \o post_url

\* f"Check out this post: {post_data['title']} {post_data['url']}"
Template(post_title, post_url) ==
    <<"C", "h", "e", "c", "k", " ", "o", "u", "t", " ", "t", "h", "i", "s", " ",
      "p", "o", "s", "t", ":", " ">> \o post_title \o <<" ">> \o post_url

NoDraft == [pc |-> "none"]

\* the state a specification of another component keeps the drafter in
DraftInitIdle == draft = NoDraft

\* generate_tweet_text is called with the data of a post
DraftInit ==
    draft \in {[pc |-> "call", post_title |-> t, post_url |-> u, api |-> "none",
                generated |-> <<>>, text |-> <<>>] :
               t \in PostTitles, u \in PostUrls}

\* the API answers: tweet_text = response.choices[0].message.content.strip()
GenerateCall(content) ==
    /\ draft.pc = "call"
    /\ content \in Contents(draft.post_url)
    /\ draft' = [draft EXCEPT !.pc = "clean", !.api = "ok",
                              !.text = Strip(content, {" "})]
    /\ UNCHANGED nonDraftVars

\* the API call raises: the template is returned as it is
GenerateRaise ==
    /\ draft.pc = "call"
    /\ draft' = [draft EXCEPT !.pc = "returned", !.api = "error",
                              !.text = Template(draft.post_title, draft.post_url)]
    /\ UNCHANGED nonDraftVars

\* _clean_tweet_text: tweet_text = tweet_text.strip('"\'')
CleanStripQuotes ==
    /\ draft.pc = "clean"
    /\ draft' = [draft EXCEPT !.pc = "ensure_url",
                              !.text = Strip(draft.text, {"\"", "'"}),
                              !.generated = Strip(draft.text, {"\"", "'"})]
    /\ UNCHANGED nonDraftVars

\* _clean_tweet_text: if post_url not in tweet_text: ...
CleanEnsureUrl ==
    /\ draft.pc = "ensure_url"
    /\ draft' =
         [draft EXCEPT
            !.pc = "ensure_len",
            !.text =
               IF ~Contains(draft.text, draft.post_url)
               THEN IF Len(draft.text) + Len(draft.post_url) + 1 <= TweetLimit
                    THEN draft.text \o <<" ">> \o draft.post_url
                    ELSE Truncated(draft.text, draft.post_url)
               ELSE draft.text]
    /\ UNCHANGED nonDraftVars

\* _clean_tweet_text: if len(tweet_text) > 280: ...; return tweet_text
CleanEnsureLength ==
    /\ draft.pc = "ensure_len"
    /\ draft' =
         [draft EXCEPT
            !.pc = "returned",
            !.text = IF Len(draft.text) > TweetLimit
                     THEN Truncated(draft.text, draft.post_url)
                     ELSE draft.text]
    /\ UNCHANGED nonDraftVars

DraftNext ==
    \/ \E content \in UNION {Contents(u) : u \in PostUrls} : GenerateCall(content)
    \/ GenerateRaise
    \/ CleanStripQuotes
    \/ CleanEnsureUrl
    \/ CleanEnsureLength

----------------------------------------------------------------------------
(* The stand-alone scripts: auto_tweet.py and generate_tweets.py *)

\* timedelta(days=30) of get_random_page (auto_tweet.py)
ThirtyDays == 30

\* TWEET_COOLDOWN_DAYS (generate_tweets.py)
TweetCooldownDays == 30

\* the days at which the scripts are started: two consecutive days, and the
\* days 30 later
VDays == {0, 1, ThirtyDays, ThirtyDays + 1}

\* the pages of the site: a Winery and a BlogPage
AutoPages == {"winery", "blog"}

\* the <url> entries of the sitemap generate_tweets.py reads: the URL, its
\* path as the sequence of its slashes and segments, and the priority in tenths
GenSitemap ==
    <<[url |-> "/napa/yountville/cellars/",
       path |-> <<"/", "napa", "/", "yountville", "/", "cellars", "/">>,
       priority |-> 8],
      [url |-> "/napa/", path |-> <<"/", "napa", "/">>, priority |-> 9],
      [url |-> "/napa/yountville/",
       path |-> <<"/", "napa", "/", "yountville", "/">>, priority |-> 5],
      [url |-> "/a/b/c/d/",
       path |-> <<"/", "a", "/", "b", "/", "c", "/", "d", "/">>, priority |-> 9],
      [url |-> "/blog/harvest/",
       path |-> <<"/", "blog", "/", "harvest", "/">>, priority |-> 9],
      [url |-> "/blog/harvest",
       path |-> <<"/", "blog", "/", "harvest">>, priority |-> 9]>>

\* path.count('/')
CountSlashes(path) == Cardinality({i \in DOMAIN path : path[i] = "/"})

\* path.startswith(prefix)
StartsWith(path, prefix) ==
    /\ Len(path) >= Len(prefix)
    /\ SubSeq(path, 1, Len(prefix)) = prefix

\* [p for p in path.strip('/').split('/') if p]
Parts(path) == SelectSeq(path, LAMBDA p : p # "/")

\* _infer_page_type
InferPageType(path) ==
    IF StartsWith(path, <<"/", "blog", "/">>) /\ CountSlashes(path) = 2
    THEN "blog"
    ELSE CASE Len(Parts(path)) = 1 -> "district"
           [] Len(Parts(path)) = 2 -> "neighborhood"
           [] Len(Parts(path)) = 3 -> "place"
           [] OTHER                -> NULL

\* mutant: a page tweeted exactly thirty days ago is eligible
EligiblePagesInclusive(P, t) ==
    {p \in DOMAIN P :
        P[p].last_tweeted = <<>> \/ P[p].last_tweeted[1] <= t - ThirtyDays}

\* Q(last_tweeted__isnull=True) | Q(last_tweeted__lt=thirty_days_ago);
\* last_tweeted is <<>> when null and <<day>> otherwise
EligiblePages(P, t) ==
    {p \in DOMAIN P :
        P[p].last_tweeted = <<>> \/ P[p].last_tweeted[1] < t - ThirtyDays}

\* get_recently_tweeted_urls(cooldown_days) of generate_tweets.py
GenRecentlyTweeted(L, t, cooldown_days) ==
    {r.page_url : r \in {q \in L : q.tweet_datetime >= t - cooldown_days}}

\* the candidates of TweetGenerator.get_random_page
GenCandidates(recently_tweeted) ==
    {i \in DOMAIN GenSitemap :
        /\ ~(GenSitemap[i].priority <= 5)
        /\ GenSitemap[i].url \notin recently_tweeted
        /\ InferPageType(GenSitemap[i].path) # NULL}

\* not x, for a text or None
Falsy(x) == x = NULL \/ x = ""

InvIdle(n) ==
    [pc |-> "idle", program |-> "none", test_mode |-> FALSE, page |-> NULL,
     page_type |-> NULL, available_visuals |-> FALSE, drafted |-> FALSE,
     calls |-> <<>>, response |-> <<>>, tweet_content |-> NULL, selected_visual |-> NULL,
     image_path |-> NULL,
     tweet_id |-> NULL, post_calls |-> 0, log_calls |-> 0, report |-> NULL,
     pages0 |-> <<>>, tweeted0 |-> <<>>, tweet_log0 |-> {}, started |-> n]

\* the state a specification of another component keeps the scripts in
VariantInitIdle ==
    /\ vclock = 0
    /\ pages = [p \in AutoPages |-> [last_tweeted |-> <<>>, last_tweet_id |-> NULL]]
    /\ tweet_log = {}
    /\ tweeted = <<>>
    /\ inv = InvIdle(0)

\* no page tweeted yet, or the blog page tweeted today by an earlier run;
\* tweet_log, which the scripts only read, empty or with a row
VariantInit ==
    /\ vclock = 0
    /\ pages \in
          {[p \in AutoPages |-> [last_tweeted |-> <<>>, last_tweet_id |-> NULL]],
           [p \in AutoPages |->
               IF p = "blog"
               THEN [last_tweeted |-> <<0>>, last_tweet_id |-> "tid0"]
               ELSE [last_tweeted |-> <<>>, last_tweet_id |-> NULL]]}
    /\ tweet_log \in {{}, {[page_url |-> "/napa/", tweet_datetime |-> 0]}}
    /\ tweeted = <<>>
    /\ inv = InvIdle(0)

\* time passes between two invocations
VariantTick ==
    /\ inv.pc = "idle"
    /\ \E d \in VDays :
          /\ d > vclock
          /\ \A x \in VDays : x > vclock => d <= x
          /\ vclock' = d
    /\ UNCHANGED <<pages, tweet_log, tweeted, inv>>
    /\ UNCHANGED nonVariantVars

\* python auto_tweet.py: main() is entered
AutoTweetMain ==
    /\ inv.pc = "idle"
    /\ inv.started < MaxRuns
    /\ inv' = [InvIdle(inv.started + 1) EXCEPT
                 !.pc = "page", !.program = "auto_tweet", !.pages0 = pages,
                 !.tweeted0 = tweeted, !.tweet_log0 = tweet_log]
    /\ UNCHANGED <<vclock, pages, tweet_log, tweeted>>
    /\ UNCHANGED nonVariantVars

\* auto_tweet.py: page = get_random_page(); if not page: return
GetRandomPage ==
    /\ inv.pc = "page"
    /\ inv.program = "auto_tweet"
    /\ IF EligiblePages(pages, vclock) = {}
       THEN inv' = [inv EXCEPT !.pc = "done",
                               !.report = "No eligible pages found for tweeting"]
       ELSE \E page \in EligiblePages(pages, vclock) :
               inv' = [inv EXCEPT !.pc = "draft", !.page = page]
    /\ UNCHANGED <<vclock, pages, tweet_log, tweeted>>
    /\ UNCHANGED nonVariantVars

\* what message.content of a response can be: a text, a text that strips to
\* nothing, or None (content.strip() then raises)
ResponseContents == {"tweet text", "", NULL}

\* mutant: gpt-4.1-mini is called whether or not gpt-4o raised
ModelCallsBoth(primary, fallback) ==
    <<[model |-> "gpt-4o", ok |-> primary],
      [model |-> "gpt-4.1-mini", ok |-> fallback]>>

\* the calls of client.chat.completions.create in generate_tweet_content:
\* gpt-4o, and gpt-4.1-mini in the handler of its exception
ModelCalls(primary, fallback) ==
    IF primary
    THEN <<[model |-> "gpt-4o", ok |-> TRUE]>>
    ELSE <<[model |-> "gpt-4o", ok |-> FALSE],
           [model |-> "gpt-4.1-mini", ok |-> fallback]>>

\* the response generate_tweet_content reads: <<>> when both calls raised,
\* otherwise <<message.content>> of the call that succeeded
Response(primary, fallback, content) ==
    IF primary \/ fallback THEN <<content>> ELSE <<>>

\* generate_tweet_content(page): the content of gpt-4o, or of gpt-4.1-mini
\* when gpt-4o raises, stripped; None when both raise or when the content is
\* None (the outer handler catches the exception of strip)
TweetContent(primary, fallback, content) ==
    IF primary \/ fallback THEN content ELSE NULL

\* mutant: only None ends the run, an empty text goes on to be posted
GenerateTweetContentNoneOnly(primary, fallback, content) ==
    /\ inv.pc = "draft"
    /\ inv.program = "auto_tweet"
    /\ inv' = [inv EXCEPT
                 !.drafted = TRUE,
                 !.calls = ModelCalls(primary, fallback),
                 !.response = Response(primary, fallback, content),
                 !.tweet_content = TweetContent(primary, fallback, content),
                 !.pc = IF TweetContent(primary, fallback, content) = NULL
                        THEN "done" ELSE "image",
                 !.report = IF TweetContent(primary, fallback, content) = NULL
                            THEN "Failed to generate tweet content" ELSE NULL]
    /\ UNCHANGED <<vclock, pages, tweet_log, tweeted>>
    /\ UNCHANGED nonVariantVars

\* auto_tweet.py: tweet_content = generate_tweet_content(page);
\* if not tweet_content: return
GenerateTweetContent(primary, fallback, content) ==
    /\ inv.pc = "draft"
    /\ inv.program = "auto_tweet"
    /\ inv' = [inv EXCEPT
                 !.drafted = TRUE,
                 !.calls = ModelCalls(primary, fallback),
                 !.response = Response(primary, fallback, content),
                 !.tweet_content = TweetContent(primary, fallback, content),
                 !.pc = IF Falsy(TweetContent(primary, fallback, content))
                        THEN "done" ELSE "image",
                 !.report = IF Falsy(TweetContent(primary, fallback, content))
                            THEN "Failed to generate tweet content" ELSE NULL]
    /\ UNCHANGED <<vclock, pages, tweet_log, tweeted>>
    /\ UNCHANGED nonVariantVars

\* auto_tweet.py: image_path = capture_page_image(page): a file, or None
CapturePageImage(captured) ==
    /\ inv.pc = "image"
    /\ inv.program = "auto_tweet"
    /\ inv' = [inv EXCEPT !.pc = "post",
                          !.image_path = IF captured THEN "image" ELSE NULL]
    /\ UNCHANGED <<vclock, pages, tweet_log, tweeted>>
    /\ UNCHANGED nonVariantVars

\* auto_tweet.py: tweet_id = post_tweet(tweet_content, image_path);
\* if not tweet_id: return
PostTweet(posted) ==
    /\ inv.pc = "post"
    /\ inv.program = "auto_tweet"
    /\ IF posted
       THEN /\ inv' = [inv EXCEPT !.pc = "status", !.tweet_id = "tid",
                                  !.post_calls = @ + 1]
            /\ tweeted' = Append(tweeted, inv.tweet_content)
       ELSE /\ inv' = [inv EXCEPT !.pc = "done", !.post_calls = @ + 1,
                                  !.report = "Failed to post tweet"]
            /\ UNCHANGED tweeted
    /\ UNCHANGED <<vclock, pages, tweet_log>>
    /\ UNCHANGED nonVariantVars

\* auto_tweet.py: update_page_tweet_status(page, tweet_id); an exception of
\* page.save() is logged and swallowed
UpdatePageTweetStatus(saved) ==
    /\ inv.pc = "status"
    /\ inv.program = "auto_tweet"
    /\ pages' = IF saved
                THEN [pages EXCEPT ![inv.page] = [last_tweeted |-> <<vclock>>,
                                                  last_tweet_id |-> inv.tweet_id]]
                ELSE pages
    /\ inv' = [inv EXCEPT !.pc = "done"]
    /\ UNCHANGED <<vclock, tweet_log, tweeted>>
    /\ UNCHANGED nonVariantVars

\* python generate_tweets.py [--test]: TweetGenerator(test_mode).run()
GenerateTweetsRun(test_mode) ==
    /\ inv.pc = "idle"
    /\ inv.started < MaxRuns
    /\ inv' = [InvIdle(inv.started + 1) EXCEPT
                 !.pc = "page", !.program = "generate_tweets",
                 !.test_mode = test_mode, !.pages0 = pages,
                 !.tweeted0 = tweeted, !.tweet_log0 = tweet_log]
    /\ UNCHANGED <<vclock, pages, tweet_log, tweeted>>
    /\ UNCHANGED nonVariantVars

\* generate_tweets.py: page_info = self.get_random_page(); None when the
\* sitemap cannot be fetched or holds no candidate
GenGetRandomPage(fetched) ==
    LET candidates ==
            GenCandidates(GenRecentlyTweeted(tweet_log, vclock, TweetCooldownDays))
    IN  /\ inv.pc = "page"
        /\ inv.program = "generate_tweets"
        /\ IF ~fetched \/ candidates = {}
           THEN inv' = [inv EXCEPT !.pc = "done",
                                   !.report = "No eligible pages found for tweeting"]
           ELSE \E i \in candidates :
                   inv' = [inv EXCEPT
                             !.pc = "content", !.page = GenSitemap[i].url,
                             !.page_type = InferPageType(GenSitemap[i].path)]
        /\ UNCHANGED <<vclock, pages, tweet_log, tweeted>>
        /\ UNCHANGED nonVariantVars

\* generate_tweets.py: page_content = self.extract_page_content(...);
\* available_visuals = self.scan_available_visuals(...) for a place
ExtractPageContent(found, visuals) ==
    /\ inv.pc = "content"
    /\ inv.program = "generate_tweets"
    /\ inv' = IF ~found
              THEN [inv EXCEPT !.pc = "done",
                               !.report = "Failed to extract content"]
              ELSE [inv EXCEPT !.pc = "draft",
                               !.available_visuals =
                                   inv.page_type = "place" /\ visuals]
    /\ UNCHANGED <<vclock, pages, tweet_log, tweeted>>
    /\ UNCHANGED nonVariantVars

\* generate_tweets.py: tweet_text, selected_visual =
\* self.generate_tweet_text_and_visual(...); if not tweet_text: return;
\* if self.test_mode: return
GenerateTweetTextAndVisual(api_ok, content, chosen) ==
    LET tweet_text == IF api_ok THEN content ELSE NULL
        selected_visual ==
            IF api_ok /\ content # "" /\ inv.available_visuals /\ chosen
            THEN "selector" ELSE NULL
    IN  /\ inv.pc = "draft"
        /\ inv.program = "generate_tweets"
        /\ inv' = [inv EXCEPT
                     !.drafted = TRUE,
                     !.tweet_content = tweet_text,
                     !.selected_visual = selected_visual,
                     !.pc = IF Falsy(tweet_text) \/ inv.test_mode
                            THEN "done" ELSE "image",
                     !.report = IF Falsy(tweet_text)
                                THEN "Failed to generate tweet text" ELSE NULL]
        /\ UNCHANGED <<vclock, pages, tweet_log, tweeted>>
        /\ UNCHANGED nonVariantVars

\* generate_tweets.py: image_path = self.capture_screenshot(...) when a visual
\* was selected
CaptureScreenshot(captured) ==
    /\ inv.pc = "image"
    /\ inv.program = "generate_tweets"
    /\ inv' = [inv EXCEPT
                 !.pc = "post",
                 !.image_path = IF inv.selected_visual # NULL /\ captured
                                THEN "image" ELSE NULL]
    /\ UNCHANGED <<vclock, pages, tweet_log, tweeted>>
    /\ UNCHANGED nonVariantVars

\* generate_tweets.py: tweet_id = self.post_tweet(...) (its body is a TODO:
\* nothing is posted, None is returned); self.log_tweet(...) (a TODO: nothing
\* is written)
GenPostAndLog ==
    /\ inv.pc = "post"
    /\ inv.program = "generate_tweets"
    /\ inv' = [inv EXCEPT !.pc = "done", !.tweet_id = NULL,
                          !.post_calls = @ + 1, !.log_calls = @ + 1]
    /\ UNCHANGED <<vclock, pages, tweet_log, tweeted>>
    /\ UNCHANGED nonVariantVars

\* main() or run() returns: the process ends
VariantReturn ==
    /\ inv.pc = "done"
    /\ inv' = InvIdle(inv.started)
    /\ UNCHANGED <<vclock, pages, tweet_log, tweeted>>
    /\ UNCHANGED nonVariantVars

VariantNext ==
    \/ VariantTick
    \/ AutoTweetMain
    \/ GetRandomPage
    \/ \E primary, fallback \in BOOLEAN, content \in ResponseContents :
          GenerateTweetContent(primary, fallback, content)
    \/ \E captured \in BOOLEAN : CapturePageImage(captured)
    \/ \E posted \in BOOLEAN : PostTweet(posted)
    \/ \E saved \in BOOLEAN : UpdatePageTweetStatus(saved)
    \/ \E test_mode \in BOOLEAN : GenerateTweetsRun(test_mode)
    \/ \E fetched \in BOOLEAN : GenGetRandomPage(fetched)
    \/ \E found, visuals \in BOOLEAN : ExtractPageContent(found, visuals)
    \/ \E api_ok, chosen \in BOOLEAN, content \in {"tweet text", ""} :
          GenerateTweetTextAndVisual(api_ok, content, chosen)
    \/ \E captured \in BOOLEAN : CaptureScreenshot(captured)
    \/ GenPostAndLog
    \/ VariantReturn

----------------------------------------------------------------------------
(* The entry point: main() of main.py *)

\* the number of times the entry point is started
MaxStarts == 1

\* the values of --cleanup DAYS: <<>> when the option is absent, <<d>> for
\* --cleanup d
Cleanups == {<<>>, <<0>>, <<1>>}

\* the command lines of main()
Args == [test : BOOLEAN, stats : BOOLEAN, cleanup : Cleanups, force : BOOLEAN]

\* the environment Config() reads: is OPENAI_API_KEY set, are the four
\* TWITTER_ variables set
Envs == [openai : BOOLEAN, twitter : BOOLEAN]

\* the truth value of args.cleanup: None and 0 are false
CleanupGiven(args) == args.cleanup # <<>> /\ args.cleanup[1] # 0

\* any([args.stats, args.cleanup, args.force])
ManualOperation(args) == args.stats \/ CleanupGiven(args) \/ args.force

\* validate_required(test_mode) raises ValueError
MissingRequired(env, test_mode) == ~env.openai \/ (~test_mode /\ ~env.twitter)

NoProc(n) ==
    [pc |-> "idle", args |-> [test |-> FALSE, stats |-> FALSE,
                              cleanup |-> <<>>, force |-> FALSE],
     effects |-> {}, did |-> "none", config_error |-> FALSE,
     schedule_file0 |-> NoFile, n |-> n]

\* the state a specification of another component keeps the process in
MainInitIdle == proc = NoProc(0)

\* time passes before the first start: the next instant of the day, or
\* midnight of the next day (a later start follows at the same instant)
MainTick ==
    /\ proc.pc = "idle"
    /\ proc.n = 0
    /\ IF clock.sec < LastSecond
       THEN clock' = [clock EXCEPT !.sec = NextInstant(clock.sec)]
       ELSE clock.day < MaxDay /\ clock' = [day |-> clock.day + 1, sec |-> 0]
    /\ now' = clock'.day
    /\ sret' = NoSRet
    /\ first' = IF first.kind = "slot" /\ first.date < clock.day
                THEN NoFirst ELSE first
    /\ UNCHANGED <<schedule_file, save_failures>>
    /\ UNCHANGED <<posts, history, txn, ret, calls, cleaned>>
    /\ UNCHANGED <<runVars, otherVars>>

\* python -m tweet_bot.main ...: args = parser.parse_args() and
\* if not any([args.stats, args.cleanup, args.force]) (main.py:177-180)
MainParseArgs(args) ==
    /\ proc.pc = "idle"
    /\ proc.n < MaxStarts
    /\ proc' = [NoProc(proc.n + 1) EXCEPT
                  !.pc = IF ManualOperation(args) THEN "bot" ELSE "gate",
                  !.args = args,
                  !.schedule_file0 = schedule_file]
    /\ UNCHANGED <<storeVars, schedVars, runVars, draftVars, variantVars>>

\* scheduler = DailyScheduler(); if not scheduler.should_run_today()
\* (main.py:181-182, 189-194)
MainGate ==
    /\ proc.pc = "gate"
    /\ \E today \in Todays :
         \E o \in Outcomes(today) :
           LET got == GetOrCreateSchedule(schedule_file, today, o[1], o[2])
               result == WithinTolerance(clock.sec, got.schedule.hour,
                                         got.schedule.minute)
           IN  /\ schedule_file' = got.file
               /\ sret' = [op |-> "should_run_today", today |-> today,
                           schedule |-> got.schedule, result |-> result]
               /\ first' = FirstAfter(today, got.schedule)
               /\ save_failures' = save_failures + (IF o[2] = "ok" THEN 0 ELSE 1)
               /\ proc' = [proc EXCEPT
                             !.pc = IF ~result THEN "closed"
                                    ELSE IF proc.args.test THEN "bot" ELSE "delay",
                             !.effects = @ \cup {"schedule"}]
    /\ UNCHANGED clock
    /\ UNCHANGED <<storeVars, runVars, draftVars, variantVars>>

\* schedule = scheduler.get_todays_schedule(); print; sys.exit(0)
\* (main.py:183-188)
MainGateClosed ==
    /\ proc.pc = "closed"
    /\ \E o \in Outcomes(clock.day) :
         LET today == clock.day
             got == GetOrCreateSchedule(schedule_file, today, o[1], o[2])
         IN  /\ schedule_file' = got.file
             /\ sret' = [op |-> "get_todays_schedule", today |-> today,
                         schedule |-> got.schedule]
             /\ first' = FirstAfter(today, got.schedule)
             /\ save_failures' = save_failures + (IF o[2] = "ok" THEN 0 ELSE 1)
    /\ proc' = [proc EXCEPT !.pc = "exited", !.did = "gate"]
    /\ exit_code' = 0
    /\ UNCHANGED clock
    /\ UNCHANGED <<sitemap, config, run, published, runs>>
    /\ UNCHANGED <<storeVars, draftVars, variantVars>>

\* apply_random_delay() (main.py:192-193, random_delay.py:9-16): sleeps when
\* ENABLE_DELAY is true; the sleep is shorter than the steps of the clock
MainDelay(enabled) ==
    /\ proc.pc = "delay"
    /\ proc' = [proc EXCEPT !.pc = "bot",
                            !.effects = IF enabled THEN @ \cup {"delay"} ELSE @]
    /\ UNCHANGED <<storeVars, schedVars, runVars, draftVars, variantVars>>

\* bot = TweetBot(test_mode=args.test) (main.py:197, 31-46): sys.exit(1) on a
\* missing variable, otherwise the database is opened (created if absent);
\* then the branch on args.stats and args.cleanup (main.py:199, 207, 213)
MainTweetBot(env) ==
    /\ proc.pc = "bot"
    /\ IF MissingRequired(env, proc.args.test)
       THEN /\ proc' = [proc EXCEPT !.pc = "exited", !.config_error = TRUE,
                                    !.did = "config"]
            /\ exit_code' = 1
       ELSE /\ proc' = [proc EXCEPT
                          !.pc = IF proc.args.stats THEN "stats"
                                 ELSE IF CleanupGiven(proc.args) THEN "cleanup"
                                 ELSE "run",
                          !.effects = @ \cup {"database"}]
            /\ UNCHANGED exit_code
    /\ UNCHANGED <<sitemap, config, run, published, runs>>
    /\ UNCHANGED <<storeVars, schedVars, draftVars, variantVars>>

\* stats = bot.get_stats(); print; return (main.py:199-205)
MainStats ==
    /\ proc.pc = "stats"
    /\ proc' = [proc EXCEPT !.pc = "exited", !.did = "stats"]
    /\ exit_code' = 0
    /\ UNCHANGED <<sitemap, config, run, published, runs>>
    /\ UNCHANGED <<storeVars, schedVars, draftVars, variantVars>>

\* deleted = bot.cleanup_old_data(args.cleanup); print; return
\* (main.py:207-210)
MainCleanup ==
    LET cutoff_date == now - proc.args.cleanup[1]
        old == {h \in Range(history) : h.tweeted_at < cutoff_date}
    IN  /\ proc.pc = "cleanup"
        /\ history' = SelectSeq2(history, old)
        /\ cleaned' = TRUE
        /\ ret' = [op |-> "cleanup_old_data",
                   days_to_keep |-> proc.args.cleanup[1],
                   deleted |-> Len(history) - Len(SelectSeq2(history, old))]
        /\ proc' = [proc EXCEPT !.pc = "exited", !.did = "cleanup"]
        /\ exit_code' = 0
        /\ UNCHANGED <<now, posts, txn, calls>>
        /\ UNCHANGED <<sitemap, config, run, published, runs>>
        /\ UNCHANGED <<schedVars, draftVars, variantVars>>

\* success = bot.run() is entered, down to get_recently_tweeted_urls
\* (main.py:213, 54-62)
MainBotRun ==
    /\ proc.pc = "run"
    /\ runs < MaxRuns
    /\ runs' = runs + 1
    /\ run' = [Idle EXCEPT !.pc = "eligible", !.test_mode = proc.args.test,
                           !.recently_tweeted =
                               RecentlyTweeted(posts, now, config.cooldown_days),
                           !.posts0 = posts, !.history0 = history,
                           !.published0 = published]
    /\ proc' = [proc EXCEPT !.pc = "workflow", !.did = "workflow"]
    /\ UNCHANGED <<sitemap, config, exit_code, published>>
    /\ UNCHANGED <<storeVars, schedVars, draftVars, variantVars>>

\* sys.exit(0 if success else 1) (main.py:213-214)
MainSysExit ==
    /\ proc.pc = "workflow"
    /\ run.pc = "done"
    /\ exit_code' = ExitStatus(run.result)
    /\ proc' = [proc EXCEPT !.pc = "exited"]
    /\ UNCHANGED <<sitemap, config, run, published, runs>>
    /\ UNCHANGED <<storeVars, schedVars, draftVars, variantVars>>

\* the process has ended: its locals are gone
MainEnd ==
    /\ proc.pc = "exited"
    /\ proc' = NoProc(proc.n)
    /\ run' = Idle
    /\ sret' = NoSRet
    /\ ret' = NoRet
    /\ UNCHANGED <<clock, schedule_file, first, save_failures>>
    /\ UNCHANGED <<now, posts, history, txn, calls, cleaned>>
    /\ UNCHANGED <<sitemap, config, exit_code, published, runs>>
    /\ UNCHANGED <<draftVars, variantVars>>

MainNext ==
    \/ MainTick
    \/ \E args \in Args : MainParseArgs(args)
    \/ MainGate
    \/ MainGateClosed
    \/ \E enabled \in BOOLEAN : MainDelay(enabled)
    \/ \E env \in Envs : MainTweetBot(env)
    \/ MainStats
    \/ MainCleanup
    \/ MainBotRun
    \/ \E ok \in BOOLEAN : RunGetEligible(ok)
    \/ \E ok \in BOOLEAN : RunCheckEligible(ok)
    \/ RunSelect
    \/ \E api_ok \in BOOLEAN : RunDraft(api_ok)
    \/ RunDraftRaise
    \/ \E posted \in BOOLEAN : RunPost(posted)
    \/ RunLog
    \/ MainSysExit
    \/ MainEnd

----------------------------------------------------------------------------
(* The specifications *)

\* the components none of the three specifications above moves
OthersIdle == DraftInitIdle /\ VariantInitIdle /\ MainInitIdle

Init == StoreInit /\ SchedInit /\ RunInitIdle /\ OthersIdle

SpecStore == Init /\ [][StoreNext]_vars

SpecSched == Init /\ [][SchedNext]_vars

\* the gate under the external trigger: time does not stop and no trigger
\* window ends without its invocation
SpecGate == Init /\ [][GateNext]_vars /\ WF_vars(GateNext)

\* the store empty, the gate untouched, any sitemap and any cooldown
InitRun == StoreInit /\ SchedInit /\ RunInit /\ OthersIdle

SpecRun == InitRun /\ [][RunNext]_vars

\* a call of generate_tweet_text, for any title and URL
InitDraft ==
    StoreInit /\ SchedInit /\ RunInitIdle /\ DraftInit /\ VariantInitIdle /\ MainInitIdle

SpecDraft == InitDraft /\ [][DraftNext]_vars

\* the stand-alone scripts, started any number of times up to MaxRuns
InitVariants ==
    StoreInit /\ SchedInit /\ RunInitIdle /\ DraftInitIdle /\ VariantInit /\ MainInitIdle

SpecVariants == InitVariants /\ [][VariantNext]_vars

\* the entry point, started up to MaxStarts times on a blog of one post
InitMain ==
    /\ StoreInit /\ SchedInit /\ DraftInitIdle /\ VariantInitIdle /\ MainInitIdle
    /\ sitemap = <<[url |-> "/a"]>>
    /\ config = [cooldown_days |-> 1]
    /\ run = Idle
    /\ exit_code = 0
    /\ published = <<>>
    /\ runs = 0

SpecMain == InitMain /\ [][MainNext]_vars

----------------------------------------------------------------------------
(* Claims about the history store, checked under SpecStore *)

Last(s) == s[Len(s)]

\* the number of tweet_history rows of a URL
EventsOf(H, url) == Cardinality({i \in DOMAIN H : H[i].post_url = url})

\* the sum of tweet_count over the tweeted_posts rows of a URL
RECURSIVE SumCount(_)
SumCount(rows) ==
    IF rows = {} THEN 0
    ELSE LET r == CHOOSE x \in rows : TRUE IN r.tweet_count + SumCount(rows \ {r})

\* C1: get_recently_tweeted_urls(C) returns exactly the URLs whose last
\* promotion is less than C old (now - ts < C); a URL promoted exactly C ago
\* is not returned.
C1_RecentlyExcludesBoundary ==
    ret.op = "get_recently_tweeted_urls" =>
        ret.urls = {u \in URLs : /\ calls[u] # <<>>
                                 /\ now - Last(calls[u]) < ret.cooldown_days}

\* C2: with no cleanup so far, every URL recorded n >= 1 times has exactly
\* one tweeted_posts row, whose tweet_count is n and is the number of its
\* tweet_history rows, whose first_tweeted_at is the time of the first call
\* and whose last_tweeted_at is the time of the most recent call.
C2_LogTweetCounts ==
    ~cleaned =>
        \A u \in URLs :
            LET n == Len(calls[u])
            IN  n >= 1 =>
                  /\ Cardinality(RowsOf(posts, u)) = 1
                  /\ \A r \in RowsOf(posts, u) :
                        /\ r.tweet_count = n
                        /\ r.tweet_count = EventsOf(history, u)
                        /\ r.first_tweeted_at = calls[u][1]
                        /\ r.last_tweeted_at = calls[u][n]

\* C2 witness: a URL recorded twice, at two different times, no cleanup
C2_Witness ==
    /\ ~cleaned
    /\ \E u \in URLs : Len(calls[u]) = 2 /\ calls[u][1] < calls[u][2]

\* C3: log_tweet is atomic: in every durable state, also in the middle of a
\* call and after a crash between the two writes, the tweet_count of a URL is
\* the number of its event rows (no cleanup so far): neither write is visible
\* without the other.
C3_LogTweetAtomic ==
    ~cleaned =>
        \A u \in URLs : SumCount(RowsOf(posts, u)) = EventsOf(history, u)

\* C3 witness: a call died between the upsert and the insert of the event
\* row, on a URL that already has a committed row
C3_Witness ==
    /\ ret.op = "log_tweet_failed"
    /\ ret.at = "upserted"
    /\ ~cleaned
    /\ RowsOf(posts, ret.args.post_url) # {}

----------------------------------------------------------------------------
(* Claims about the scheduling gate, checked under SpecSched *)

\* C6: for a given date, every call of _get_or_create_schedule returns the
\* (hour, minute) the first call for that date returned: a slot once chosen
\* is never re-rolled on that date.
C6_ScheduleIdempotent ==
    sret.op # "none" =>
        /\ first.kind = "slot"
        /\ first.date = sret.today
        /\ sret.schedule.hour = first.hour
        /\ sret.schedule.minute = first.minute

\* C7: should_run_today returns true if and only if the current time is at
\* most 10 minutes before or after today's persisted slot, hour:minute:00.
C7_ShouldRunWithinTolerance ==
    (/\ sret.op = "should_run_today"
     /\ schedule_file.kind = "record"
     /\ schedule_file.date = clock.day) =>
        LET slot == SecondOf(schedule_file.hour, schedule_file.minute)
        IN  sret.result <=> (/\ slot - ToleranceMinutes * 60 <= clock.sec
                             /\ clock.sec <= slot + ToleranceMinutes * 60)

\* C7 witness: a check exactly 10 minutes after today's persisted slot, which
\* says run
C7_Witness ==
    /\ sret.op = "should_run_today"
    /\ schedule_file.kind = "record"
    /\ schedule_file.date = clock.day
    /\ clock.sec = SecondOf(schedule_file.hour, schedule_file.minute)
                     + ToleranceMinutes * 60
    /\ sret.result

\* C8: the store holds one record; after a check on a date it holds the
\* record of that date, its slot one of the enumerated list (the record of an
\* earlier date is overwritten), and the record used for the decision is the
\* stored record of today.
C8_SingleSlotOverwritten ==
    sret.op # "none" =>
        /\ schedule_file.kind = "record"
        /\ schedule_file.date = sret.today
        /\ <<schedule_file.hour, schedule_file.minute>> \in TimeSlots
        /\ sret.schedule.date = sret.today
        /\ sret.schedule = schedule_file

----------------------------------------------------------------------------
(* Claims about the promotion workflow, checked under SpecRun *)

\* a post has been selected in the invocation in progress
Selected == run.selected_post.url # NULL

\* the first fetch of the invocation returned candidates, every one of them
\* in the exclusion set
Exhausted ==
    /\ run.fetches # <<>>
    /\ run.fetches[1] # <<>>
    /\ \A i \in DOMAIN run.fetches[1] :
          run.fetches[1][i].url \in run.recently_tweeted

\* the invocation in progress has promoted the selected post: one call of
\* post_tweet, and one event row appended for the selected URL
Promoted ==
    /\ run.post_calls = 1
    /\ Len(history) = Len(run.history0) + 1
    /\ Last(history).post_url = run.selected_post.url

\* the invocation in progress has written nothing and published nothing
StoreUntouched ==
    /\ posts = run.posts0
    /\ history = run.history0
    /\ published = run.published0

\* C4: when the source holds a candidate outside the cooldown, the post
\* selected is outside the cooldown, whatever the fetches of the run returned.
C4_SelectionRespectsCooldown ==
    Selected =>
        ((\E i \in DOMAIN sitemap : sitemap[i].url \notin run.recently_tweeted)
            => run.selected_post.url \notin run.recently_tweeted)

\* C5 as stated: when every candidate is in the exclusion set,
\* get_eligible_posts returns the empty list and run then widens the pool to
\* all candidates instead of failing, and selects and promotes one of them.
C5_FallbackWidens ==
    Exhausted =>
        /\ run.pc = "check" => run.eligible_posts = <<>>
        /\ run.pc # "check" =>
              /\ run.report \notin {"No posts found in sitemap",
                                    "No eligible posts found"}
              /\ run.eligible_posts = sitemap
              /\ Selected => \E i \in DOMAIN sitemap :
                                 run.selected_post = sitemap[i]
              /\ run.pc = "done" => Promoted

C10_EmptyFetchAborts ==
    (run.pc = "done" /\ \E i \in DOMAIN run.fetches : run.fetches[i] = <<>>) =>
        /\ ExitStatus(run.result) # 0
        /\ StoreUntouched

\* C11: when the first fetch of the source returns nothing the run ends as an
\* error without entering the exhaustion fallback (no second fetch, nothing
\* selected), whether or not the exclusion set is empty.
C11_EmptySourceIsError ==
    (run.pc \notin {"idle", "eligible", "check"} /\ run.fetches[1] = <<>>) =>
        /\ run.pc = "done"
        /\ ~run.result
        /\ run.report \in {"No posts found in sitemap", "No eligible posts found"}
        /\ Len(run.fetches) = 1
        /\ ~Selected

\* the event rows that carry a tweet id
WithTweetId(H) == {i \in DOMAIN H : H[i].tweet_id # NULL}

\* C14: an event row carries a tweet id only if its text was posted: there
\* are no more rows with an id than texts posted, and the row written by a run
\* that posted nothing (dry run or publish failure) has a null id.
C14_TweetIdOnlyIfPosted ==
    /\ Cardinality(WithTweetId(history)) <= Len(published)
    /\ (run.pc = "done" /\ run.post_calls = 1 /\ published = run.published0) =>
          Last(history).tweet_id = NULL

----------------------------------------------------------------------------
(* Further claims about the history store, checked under SpecStore *)

\* the number of rows of H, among those at the indexes I, equal to r
CountAt(H, I, r) == Cardinality({i \in I : H[i] = r})

\* C17: a step of cleanup_old_data(days) deletes exactly the event rows with
\* tweeted_at < now - days and returns their number, the number of event rows
\* does not increase, and tweeted_posts is unchanged, so that
\* get_recently_tweeted_urls gives the same result before and after.
C17_CleanupDeletesOld ==
    [][ret'.op = "cleanup_old_data" =>
          LET cutoff == now - ret'.days_to_keep
              oldIdx == {i \in DOMAIN history : history[i].tweeted_at < cutoff}
              kept   == DOMAIN history \ oldIdx
          IN  /\ ret'.deleted = Cardinality(oldIdx)
              /\ Len(history') = Len(history) - Cardinality(oldIdx)
              /\ Len(history') <= Len(history)
              /\ \A r \in Range(history) \cup Range(history') :
                    CountAt(history', DOMAIN history', r) = CountAt(history, kept, r)
              /\ posts' = posts
              /\ \A c \in DayRange :
                    RecentlyTweeted(posts', now', c) = RecentlyTweeted(posts, now, c)
       ]_vars

\* C17 witness: a cleanup has deleted a row and kept another, one that is
\* exactly days_to_keep old
C17_Witness ==
    /\ ret.op = "cleanup_old_data"
    /\ ret.deleted >= 1
    /\ \E i \in DOMAIN history : history[i].tweeted_at = now - ret.days_to_keep
    /\ posts # {}

\* the timestamps of the successful events of url, as a bag: the number of
\* them with timestamp t
SuccessesAt(url, t) ==
    Cardinality({i \in DOMAIN history :
                    /\ history[i].post_url = url
                    /\ history[i].success
                    /\ history[i].tweeted_at = t})

\* C18: get_previous_tweets(url, limit) returns at most limit entries, most
\* recent first; they are the limit most recent successful events of url:
\* as many as there are such events up to limit, no more entries with a
\* timestamp than url has successful events with it, and no successful event
\* of url left out is more recent than an entry returned.
C18_PreviousTweetsRecentFirst ==
    ret.op = "get_previous_tweets" =>
        LET tweets == ret.tweets
            n == Cardinality({i \in DOMAIN history :
                                 /\ history[i].post_url = ret.post_url
                                 /\ history[i].success})
            returnedAt(t) == Cardinality({j \in DOMAIN tweets :
                                             tweets[j].tweeted_at = t})
        IN  /\ Len(tweets) <= ret.limit
            /\ Len(tweets) = IF n <= ret.limit THEN n ELSE ret.limit
            /\ \A j \in DOMAIN tweets : j > 1 =>
                  tweets[j - 1].tweeted_at >= tweets[j].tweeted_at
            /\ \A t \in 0..MaxTime : returnedAt(t) <= SuccessesAt(ret.post_url, t)
            /\ \A t \in 0..MaxTime :
                  returnedAt(t) < SuccessesAt(ret.post_url, t) =>
                      \A j \in DOMAIN tweets : tweets[j].tweeted_at >= t
            /\ \A j \in DOMAIN tweets :
                  \E i \in DOMAIN history :
                      /\ history[i].post_url = ret.post_url
                      /\ history[i].success
                      /\ tweets[j].tweet_text = history[i].tweet_text
                      /\ tweets[j].tweeted_at = history[i].tweeted_at

\* C18 witness: the URL has an older successful event and a more recent failed
\* one, and the call returned the successful one
C18_Witness ==
    /\ ret.op = "get_previous_tweets"
    /\ Len(ret.tweets) = 1
    /\ \E i \in DOMAIN history :
          /\ history[i].post_url = ret.post_url
          /\ ~history[i].success
          /\ history[i].tweeted_at > ret.tweets[1].tweeted_at

----------------------------------------------------------------------------
(* Claims about drafting, checked under SpecDraft *)

\* C15: the text generate_tweet_text returns has at most 280 characters and
\* contains the URL of the post, whatever the title, the URL and the outcome
\* of the API call.
C15_DraftWithinLimitWithUrl ==
    draft.pc = "returned" =>
        /\ Len(draft.text) <= TweetLimit
        /\ Contains(draft.text, draft.post_url)

\* C16: when the generated text does not contain the URL and cannot take it
\* within 280 characters, the result has at most 280 characters, ends with a
\* space and the URL, and what precedes them is a prefix of the generated
\* text that ends where a word ends (or is empty).
C16_TruncatesOnWordBoundary ==
    (/\ draft.pc = "returned"
     /\ draft.api = "ok"
     /\ ~Contains(draft.generated, draft.post_url)
     /\ Len(draft.generated) + Len(draft.post_url) + 1 > TweetLimit) =>
        LET n == Len(draft.text) - Len(draft.post_url)
        IN  /\ Len(draft.text) <= TweetLimit
            /\ n >= 1
            /\ SubSeq(draft.text, n + 1, Len(draft.text)) = draft.post_url
            /\ draft.text[n] = " "
            /\ SubSeq(draft.text, 1, n - 1) = SubSeq(draft.generated, 1, n - 1)
            /\ \/ n - 1 = 0
               \/ draft.generated[n - 1] = " "
               \/ draft.generated[n] = " "

----------------------------------------------------------------------------
(* Claims about the stand-alone scripts, checked under SpecVariants *)

\* C20: in auto_tweet.py and generate_tweets.py, once drafting has failed
\* (API error or empty text) the run is over: no call of post_tweet, nothing
\* posted, no page status changed, no tweet_log row and no log_tweet call.
C20_DraftFailureAborts ==
    (inv.drafted /\ Falsy(inv.tweet_content)) =>
        /\ inv.pc = "done"
        /\ inv.post_calls = 0
        /\ inv.log_calls = 0
        /\ tweeted = inv.tweeted0
        /\ pages = inv.pages0
        /\ tweet_log = inv.tweet_log0

\* C20 witness: auto_tweet.py has ended on an empty text from the API, after
\* an earlier invocation has tweeted a page
C20_Witness ==
    /\ inv.program = "auto_tweet"
    /\ inv.pc = "done"
    /\ inv.drafted
    /\ inv.tweet_content = ""
    /\ tweeted # <<>>

----------------------------------------------------------------------------
(* Claims about the entry point, checked under SpecMain *)

\* C12: a process that ends on a configuration error ends with a non-zero
\* status and has done nothing before: the schedule file is as it was when
\* the process started and was not consulted, no delay was slept, the
\* database was not opened and the workflow was not entered.
C12_ConfigErrorBeforeSideEffects ==
    proc.config_error =>
        /\ exit_code # 0
        /\ proc.effects = {}
        /\ schedule_file = proc.schedule_file0
        /\ run = Idle

\* the workflow of this process published a tweet and recorded it
PromotedAndLogged ==
    /\ ~run.test_mode
    /\ run.tweet_id # NULL
    /\ published # run.published0
    /\ history # run.history0

\* the workflow of this process ran to the end in test mode
DryRunDone == run.test_mode /\ run.tweet_id = "test_tweet_id" /\ run.post_calls = 1

\* the workflow of this process found nothing to promote
NothingEligible ==
    /\ run.pc = "done"
    /\ run.selected_post.url = NULL

\* the workflow of this process selected a post and ended without a text
DraftingFailed ==
    /\ run.pc = "done"
    /\ run.selected_post.url # NULL
    /\ run.tweet_text = NULL

\* the workflow of this process called post_tweet and got no tweet id
PostingFailed == run.pc = "done" /\ run.post_calls = 1 /\ run.tweet_id = NULL

C19_ForceBypassesGate ==
    (proc.pc # "idle" /\
     (proc.args.force \/ proc.args.stats \/ proc.args.cleanup # <<>>)) =>
        /\ proc.pc \notin {"gate", "closed", "delay"}
        /\ "schedule" \notin proc.effects
        /\ schedule_file = proc.schedule_file0
        /\ proc.did # "gate"
        /\ (proc.pc = "exited" /\ ~proc.config_error /\ ~proc.args.stats
            /\ proc.args.cleanup = <<>>) => proc.did = "workflow"

----------------------------------------------------------------------------
(* Further claims about the workflow, checked under SpecRun *)

\* the stages of the run in progress other than the read of the source: the
\* source was read before the selection, post_tweet was called at most once
\* and only with a text, log_tweet was called at most once and only after
\* post_tweet returned, and a run that ended has its result
StagesOrdered ==
    /\ Selected => Len(run.fetches) >= 1
    /\ run.post_calls <= 1
    /\ run.post_calls = 1 => (Selected /\ run.tweet_text # NULL)
    /\ Len(history) <= Len(run.history0) + 1
    /\ history # run.history0 => (run.post_calls = 1 /\ run.pc = "done")
    /\ run.pc = "done" => run.result \in BOOLEAN

\* C21: in a run no stage is retried and the stages are ordered: the source
\* is not read again after a read that returned nothing, it is read before
\* the selection, post_tweet is called at most once and after drafting,
\* log_tweet at most once and after post_tweet returned, and the run ends
\* with a result.
C21_NoRetryStagesOrdered ==
    run.pc # "idle" =>
        /\ Len(run.fetches) >= 2 => run.fetches[1] # <<>>
        /\ StagesOrdered

----------------------------------------------------------------------------
(* Further claims about the store, checked under SpecStore *)

\* C22: get_stats returns the number of tweeted_posts rows, the number of
\* tweet_history rows with success true, and the number of tweet_history rows
\* (successful or not) whose timestamp lies within the last 7 days.
C22_StatsCounts ==
    ret.op = "get_stats" =>
        /\ ret.total_posts_tweeted = Cardinality(posts)
        /\ ret.total_tweets_sent =
               Cardinality({i \in DOMAIN history : history[i].success})
        /\ ret.tweets_last_7_days =
               Cardinality({i \in DOMAIN history :
                               history[i].tweeted_at >= now - SevenDays})

----------------------------------------------------------------------------
(* Claims about drafting inside the workflow, checked under SpecRun *)

\* the run in progress has published, or tried to, and written one event
\* for the selected post
PublishedAndLoggedOnce ==
    /\ run.tweet_text # NULL
    /\ run.post_calls = 1
    /\ Len(history) = Len(run.history0) + 1
    /\ Last(history).post_url = run.selected_post.url
    /\ Last(history).tweet_text = run.tweet_text

C24_EventsAppendOnly ==
    [][/\ ret'.op = "log_tweet" =>
             /\ Len(history') = Len(history) + 1
             /\ SubSeq(history', 1, Len(history)) = history
             /\ Last(history').post_url = ret'.args.post_url
             /\ \A r \in posts \cup posts' :
                   r.post_url # ret'.args.post_url => (r \in posts /\ r \in posts')
       /\ ret'.op # "cleanup_old_data" =>
             /\ Len(history') >= Len(history)
             /\ SubSeq(history', 1, Len(history)) = history
      ]_vars

\* C24 witness: a log_tweet has completed on a store that already held an
\* event row of the same URL, logged at an earlier time
C24_Witness ==
    /\ ret.op = "log_tweet"
    /\ Len(history) >= 2
    /\ history[Len(history) - 1].post_url = ret.args.post_url
    /\ history[Len(history) - 1].tweeted_at < Last(history).tweeted_at

----------------------------------------------------------------------------
(* Further claims about the stand-alone scripts, checked under SpecVariants *)

\* the generation calls of the run in progress were made in the fixed order:
\* gpt-4o first, gpt-4.1-mini second and only after gpt-4o raised, at most
\* two calls, none after a success
CallsInOrder ==
    /\ Len(inv.calls) \in {1, 2}
    /\ inv.calls[1].model = "gpt-4o"
    /\ Len(inv.calls) = 2 <=> ~inv.calls[1].ok
    /\ Len(inv.calls) = 2 => inv.calls[2].model = "gpt-4.1-mini"

\* both generation calls of the run in progress raised
BothCallsFailed ==
    /\ Len(inv.calls) = 2
    /\ ~inv.calls[1].ok
    /\ ~inv.calls[2].ok

\* C25 as stated: the calls are made in the fixed order, and
\* generate_tweet_content returns None only when both calls failed.
C25_NoneOnlyWhenBothFailed ==
    (inv.program = "auto_tweet" /\ inv.drafted) =>
        /\ CallsInOrder
        /\ inv.tweet_content = NULL => BothCallsFailed

\* C25 amended: the calls are made in the fixed order; the result is None
\* exactly when both calls failed or the response of the call that succeeded
\* had no text (content None), and otherwise it is the text of that response.
C25_ModelFallbackOrder ==
    (inv.program = "auto_tweet" /\ inv.drafted) =>
        /\ CallsInOrder
        /\ BothCallsFailed <=> inv.response = <<>>
        /\ inv.tweet_content = NULL <=>
               (BothCallsFailed \/ inv.response = <<NULL>>)
        /\ inv.tweet_content # NULL => inv.tweet_content = inv.response[1]

\* C25 witness: gpt-4o raised, gpt-4.1-mini answered, and its text is the
\* result
C25_Witness ==
    /\ inv.program = "auto_tweet"
    /\ inv.drafted
    /\ Len(inv.calls) = 2
    /\ inv.calls[2].ok
    /\ inv.tweet_content = "tweet text"

\* the events of publish attempts that failed
FailedEvents == {i \in DOMAIN history : ~history[i].success}

\* the failed event i left its URL with last_tweeted_at at the time of the
\* attempt or later and one count per attempt, the URL is in the exclusion
\* set for the cooldown period, and the event is no successful tweet
CooldownStarted(i) ==
    LET u == history[i].post_url
        t == history[i].tweeted_at
    IN  /\ \E r \in posts :
              /\ r.post_url = u
              /\ r.last_tweeted_at >= t
              /\ r.tweet_count =
                     Cardinality({j \in DOMAIN history : history[j].post_url = u})
        /\ now <= t + config.cooldown_days =>
               u \in RecentlyTweeted(posts, now, config.cooldown_days)
        /\ i \notin SuccessfulOf(history, u)

\* a later run inside the cooldown of the failed event i does not select its
\* URL while the source holds a candidate outside the exclusion set
NotSelectedInCooldown(i) ==
    (/\ i <= Len(run.history0)
     /\ Selected
     /\ now <= history[i].tweeted_at + config.cooldown_days
     /\ \E k \in DOMAIN sitemap : sitemap[k].url \notin run.recently_tweeted)
        => run.selected_post.url # history[i].post_url

\* the part of C26 about the store: every failed event started the cooldown
FailedPublishStartsCooldown == \A i \in FailedEvents : CooldownStarted(i)

\* C26: a failed publish attempt starts the cooldown: its URL has
\* last_tweeted_at at the time of the attempt and an incremented tweet_count,
\* is in get_recently_tweeted_urls for the cooldown period and is not selected
\* by a later run while other candidates remain; the failed event is no
\* successful tweet of the URL.
C26_FailedPublishStartsCooldown ==
    \A i \in FailedEvents : CooldownStarted(i) /\ NotSelectedInCooldown(i)

\* the tolerance windows of two different slots share no instant
WindowsDisjoint ==
    \A s1 \in TimeSlots : \A s2 \in TimeSlots \ {s1} :
        Abs(SecondOf(s1[1], s1[2]) - SecondOf(s2[1], s2[2]))
            > 2 * ToleranceMinutes * 60

\* the slots the instant sec is within tolerance of
Matching(sec) == {s \in TimeSlots : WithinTolerance(sec, s[1], s[2])}

\* C27: the tolerance windows of the eleven slots are pairwise disjoint, at
\* every instant at most one slot matches, and a gated invocation triggered at
\* a slot time and delayed by at most 10 minutes passes should_run_today
\* exactly when its slot is the slot chosen for today.
C27_WindowsDisjoint ==
    /\ Cardinality(TimeSlots) = 11
    /\ WindowsDisjoint
    /\ \A sec \in Instants : Cardinality(Matching(sec)) <= 1
    /\ sret.op = "should_run_today" =>
           \A s \in TimeSlots :
               TriggeredAt(clock.sec, s) =>
                   (sret.result <=>
                        <<sret.schedule.hour, sret.schedule.minute>> = s)

\* C27 witness: an invocation triggered at the first slot and delayed by ten
\* minutes passed, the slot chosen for today being the first slot
C27_Witness ==
    /\ sret.op = "should_run_today"
    /\ clock.sec = SecondOf(13, 12) + ToleranceMinutes * 60
    /\ sret.schedule.hour = 13
    /\ sret.schedule.minute = 12
    /\ sret.result

----------------------------------------------------------------------------
(* Claims about the gate under the external trigger, checked under SpecGate *)

\* a step that creates a record creates it with a slot that is not earlier
\* than the slot whose trigger window the clock is in
CreatedNotEarlier ==
    (schedule_file' # schedule_file /\ schedule_file'.kind = "record") =>
        \A s \in TimeSlots :
            TriggeredAt(clock.sec, s) =>
                SecondOf(schedule_file'.hour, schedule_file'.minute)
                    >= SecondOf(s[1], s[2])

\* an invocation has passed the gate on day d
PassedOn(d) ==
    /\ clock.day = d
    /\ sret.op = "should_run_today"
    /\ sret.result

\* C28: on every day on which a gated invocation is made within 10 minutes
\* after each slot time, none earlier that day, and the schedule file
\* persists, some invocation of that day passes the gate; and the slot a
\* check creates is never earlier than the trigger window of that check.
C28_GateLiveness ==
    /\ [][CreatedNotEarlier]_vars
    /\ \A d \in 0..MaxDay :
           (clock.day = d /\ clock.sec = 0) ~> PassedOn(d)

\* C28 witness: on the second day the first check created the latest slot,
\* ten invocations were rejected and the invocation of the latest slot passes
C28_Witness ==
    /\ PassedOn(1)
    /\ sret.schedule.hour = 23
    /\ clock.sec = SecondOf(23, 29) + ToleranceMinutes * 60

----------------------------------------------------------------------------
(* Claims about _infer_page_type, checked under SpecVariants *)

\* path is n segments, each between two slashes
Segments(path, n) ==
    /\ Len(path) = 2 * n + 1
    /\ \A i \in DOMAIN path : (path[i] = "/") <=> (i % 2 = 1)

\* the type the comment of _infer_page_type gives a path
CommentedPageType(path) ==
    CASE Segments(path, 2) /\ path[2] = "blog" -> "blog"
      [] Segments(path, 1)                     -> "district"
      [] Segments(path, 2)                     -> "neighborhood"
      [] Segments(path, 3)                     -> "place"
      [] OTHER                                 -> NULL

\* the path of the sitemap entry of a URL
PathOf(url) ==
    GenSitemap[CHOOSE i \in DOMAIN GenSitemap : GenSitemap[i].url = url].path

\* C29: the page generate_tweets selects has the type the comment of
\* _infer_page_type gives its path: /blog/<slug>/ is blog, /<region>/ is
\* district, two segments are neighborhood, three are place; a path of any
\* other number of segments has no type and is never selected.
C29_InferPageType ==
    (/\ inv.program = "generate_tweets"
     /\ inv.page # NULL
     /\ \E n \in 1..4 : Segments(PathOf(inv.page), n)) =>
        /\ inv.page_type = CommentedPageType(PathOf(inv.page))
        /\ inv.page_type # NULL

----------------------------------------------------------------------------
(* Claims about the page status of auto_tweet.py, checked under SpecVariants *)

\* the status of the pages is as it was when main() was entered
PagesUnchanged == pages = inv.pages0

\* the status of the selected page, and of no other, was written with the
\* time of the run and the id of the tweet
StatusWritten ==
    /\ inv.page # NULL
    /\ pages = [inv.pages0 EXCEPT ![inv.page] =
                   [last_tweeted |-> <<vclock>>, last_tweet_id |-> inv.tweet_id]]

\* C30: in auto_tweet.py the status of a page is written only after
\* post_tweet returned a tweet id; when no page is eligible, when drafting
\* fails or when publishing fails the status of every page is unchanged, a
\* page whose publish failed is still eligible, and the page selected has
\* last_tweeted null or strictly more than 30 days old.
C30_StatusOnlyAfterPublish ==
    inv.program = "auto_tweet" =>
        /\ PagesUnchanged \/ StatusWritten
        /\ ~PagesUnchanged => (inv.tweet_id # NULL /\ inv.post_calls = 1)
        /\ (inv.pc = "done" /\ inv.tweet_id = NULL) => PagesUnchanged
        /\ inv.report = "Failed to post tweet" =>
               inv.page \in EligiblePages(pages, vclock)
        /\ inv.page # NULL =>
               \/ inv.pages0[inv.page].last_tweeted = <<>>
               \/ vclock - inv.pages0[inv.page].last_tweeted[1] > ThirtyDays

\* C30 witness: the day after its thirty days ended the blog page was selected
\* again, published, and its status written
C30_Witness ==
    /\ inv.program = "auto_tweet"
    /\ inv.pc = "done"
    /\ inv.page = "blog"
    /\ inv.tweet_id # NULL
    /\ inv.pages0["blog"].last_tweeted = <<0>>
    /\ vclock = ThirtyDays + 1
    /\ pages["blog"].last_tweeted = <<vclock>>

====
